---- MODULE Spec2Model ----
(***************************************************************************)
(* Model of the appointment-booking MCP server: the zod validators, the    *)
(* SupabaseConnection gateway and the three tool classes (CompaniesTools,  *)
(* EmployeesTools, ServicesTools).  The remote store is the four tables    *)
(* companies, employees, services and authorized_users.  A handler is a    *)
(* sequence of steps, one per outbound store call (every await in the      *)
(* source).  The handlers run in the server process once start() has       *)
(* connected the transport; the request handler routes the tools it has a  *)
(* case for, the handlers of the other two classes are driven directly.    *)
(***************************************************************************)
EXTENDS Integers, Sequences, FiniteSets, TLC

(***************************************************************************)
(* Bounds of the model.                                                    *)
(***************************************************************************)
\* Number of successful inserts/updates in one behaviour (the logical clock
\* that stamps created_at / updated_at stops there).
MaxClock == 1
\* Row identifiers a caller may send are 0..MaxId (0 is refused by the schemas).
MaxId == 2
\* Rows of authorized_users in the initial store.
MaxAuthRows == 1
\* Transports the HTTP server creates in one behaviour.
MaxSessions == 2

(***************************************************************************)
(* JavaScript values.                                                      *)
(***************************************************************************)
\* Reading a property that the object does not have.
JsUndefined == "<undefined>"
\* JSON null in a response body.
Null == "null"
\* The object {}.
EmptyObj == [f \in {} |-> 0]

Has(obj, f) == f \in DOMAIN obj
Get(obj, f) == IF Has(obj, f) THEN obj[f] ELSE JsUndefined
\* Object spread {...a, ...b}.
Merge(a, b) == [f \in (DOMAIN a) \cup (DOMAIN b) |-> IF f \in DOMAIN b THEN b[f] ELSE a[f]]
\* Rest destructuring: const { k, ...rest } = obj.
Without(obj, keys) == [f \in (DOMAIN obj) \ keys |-> obj[f]]
Pick(obj, keys) == [f \in (DOMAIN obj) \cap keys |-> obj[f]]
\* a || b on strings: "" and undefined are falsy.
Falsy(v) == v = JsUndefined \/ v = ""

(***************************************************************************)
(* Strings of the model and their lengths.                                 *)
(***************************************************************************)
LongName == "name-of-256-chars"
LongPhone == "phone-of-21-chars"
LongCategory == "category-of-101-chars"
GoodEmail == "e@x.io"
BadEmail == "not-an-email"
StrUniverse == {"", "a", "b", "555", "T1", "T2", "undefined", "hair",
                LongName, LongPhone, LongCategory, GoodEmail, BadEmail}
StrLen(s) == CASE s = "" -> 0
               [] s = LongName -> 256
               [] s = LongPhone -> 21
               [] s = LongCategory -> 101
               [] OTHER -> 6
IsEmail(s) == s = GoodEmail

(***************************************************************************)
(* Entity validators (zod).  A schema is its shape (field -> accepted      *)
(* values) and its required fields; z.object(...).parse reports every      *)
(* violated field and returns the object stripped to the schema's keys.    *)
(***************************************************************************)
AnyStr == StrUniverse
PosNum == {n \in Int : n > 0}
PosInt == {n \in Int : n > 0}
NameStr == {s \in StrUniverse : StrLen(s) >= 1 /\ StrLen(s) <= 255}
PhoneStr == {s \in StrUniverse : StrLen(s) <= 20}
CategoryStr == {s \in StrUniverse : StrLen(s) <= 100}
EmailStr == {s \in StrUniverse : IsEmail(s)}

CompanyInsertSchema ==
    [required |-> {"name"},
     shape |-> [name |-> NameStr, description |-> AnyStr, email |-> EmailStr,
                phone |-> PhoneStr, address |-> AnyStr]]
CompanyUpdateSchema ==
    [required |-> {"id"},
     shape |-> [id |-> PosInt, name |-> NameStr, description |-> AnyStr,
                email |-> EmailStr, phone |-> PhoneStr, address |-> AnyStr]]
CompanyDeleteSchema == [required |-> {"id"}, shape |-> [id |-> PosInt]]
CompanyFilterSchema == [required |-> {}, shape |-> [name |-> AnyStr, email |-> AnyStr]]

EmployeeInsertSchema ==
    [required |-> {"name", "company_id"},
     shape |-> [name |-> NameStr, email |-> EmailStr, phone |-> PhoneStr,
                company_id |-> PosInt]]
EmployeeUpdateSchema ==
    [required |-> {"id"},
     shape |-> [id |-> PosInt, name |-> NameStr, email |-> EmailStr,
                phone |-> PhoneStr, company_id |-> PosInt]]
EmployeeDeleteSchema == [required |-> {"id"}, shape |-> [id |-> PosInt]]
EmployeeFilterSchema ==
    [required |-> {"company_id"},
     shape |-> [company_id |-> PosInt, name |-> AnyStr, email |-> AnyStr]]

ServiceInsertSchema ==
    [required |-> {"name", "price", "duration", "company_id"},
     shape |-> [name |-> NameStr, description |-> AnyStr, price |-> PosNum,
                duration |-> PosInt, category |-> CategoryStr, company_id |-> PosInt]]
ServiceUpdateSchema ==
    [required |-> {"id"},
     shape |-> [id |-> PosInt, name |-> NameStr, description |-> AnyStr,
                price |-> PosNum, duration |-> PosInt, category |-> CategoryStr,
                company_id |-> PosInt]]
ServiceFilterSchema ==
    [required |-> {"company_id"},
     shape |-> [company_id |-> PosInt, category |-> AnyStr, price_min |-> PosNum,
                price_max |-> PosNum]]
ServiceDeleteSchema == [required |-> {"id"}, shape |-> [id |-> PosInt]]

\* schema.parse(args): the violated fields and the stripped object.
ZodIssues(schema, args) ==
    {f \in schema.required : ~Has(args, f)}
      \cup {f \in (DOMAIN args) \cap (DOMAIN schema.shape) : args[f] \notin schema.shape[f]}
ZodValue(schema, args) == Pick(args, DOMAIN schema.shape)

(***************************************************************************)
(* The twelve tools.                                                       *)
(***************************************************************************)
CompanyTools == {"list_companies", "create_company", "update_company", "delete_company"}
EmployeeTools == {"list_employees", "create_employee", "update_employee", "delete_employee"}
ServiceTools == {"list_services", "create_service", "update_service", "delete_service"}
ToolNames == CompanyTools \cup EmployeeTools \cup ServiceTools

\* The table a tool works on.
TableOf(op) == IF op \in CompanyTools THEN "companies"
               ELSE IF op \in EmployeeTools THEN "employees" ELSE "services"
\* list | create | update | delete
KindOf(op) == CASE op \in {"list_companies", "list_employees", "list_services"} -> "list"
                [] op \in {"create_company", "create_employee", "create_service"} -> "create"
                [] op \in {"update_company", "update_employee", "update_service"} -> "update"
                [] OTHER -> "delete"
\* The schema each handler parses its arguments with.
SchemaOf(op) ==
    CASE op = "list_companies" -> CompanyFilterSchema
      [] op = "create_company" -> CompanyInsertSchema
      [] op = "update_company" -> CompanyUpdateSchema
      [] op = "delete_company" -> CompanyDeleteSchema
      [] op = "list_employees" -> EmployeeFilterSchema
      [] op = "create_employee" -> EmployeeInsertSchema
      [] op = "update_employee" -> EmployeeUpdateSchema
      [] op = "delete_employee" -> EmployeeDeleteSchema
      [] op = "list_services" -> ServiceFilterSchema
      [] op = "create_service" -> ServiceInsertSchema
      [] op = "update_service" -> ServiceUpdateSchema
      [] OTHER -> ServiceDeleteSchema

\* Parse with a schema that only checks that the required fields are there.
ParseRequiredOnly(op, args) ==
    [issues |-> {f \in SchemaOf(op).required : ~Has(args, f)},
     value |-> ZodValue(SchemaOf(op), args)]
\* XSchema.parse(args) as the first statement of a handler: it throws a ZodError
\* when there are issues and returns the stripped object otherwise.
Parse(op, args) ==
    [issues |-> ZodIssues(SchemaOf(op), args), value |-> ZodValue(SchemaOf(op), args)]

\* The words the handlers put in their messages.
EntityName(op) == IF op \in CompanyTools THEN "Company"
                  ELSE IF op \in EmployeeTools THEN "Employee" ELSE "Service"

(***************************************************************************)
(* Error messages and response envelopes.  A message is its template with  *)
(* the interpolated values next to it.                                     *)
(***************************************************************************)
Message(template, entity, verb, num, parts) ==
    [template |-> template, entity |-> entity, verb |-> verb, num |-> num, parts |-> parts]
\* ZodError.message: the list of issues.
ZodMessage(issues) == Message("ZodError", "", "", Cardinality(issues), issues)
\* `${Entity} with ID ${id} not found`
NotFoundMessage(op, id) == Message("$E with ID $N not found", EntityName(op), "", id, {})
\* `User not authorized to ${verb} services for this company`
NotAuthorizedMessage(op) ==
    Message("User not authorized to $V services for this company", "", KindOf(op), 0, {})
\* `Company with company_id ${code} not found`
ParentNotFoundMessage(code) ==
    Message("Company with company_id $N not found", "Company", "", code, {})
\* `Failed to ${verb} ${entity}: ${error.message}`
StoreMessage(verb, table) == Message("Failed to $V $E: $M", table, verb, 0, {})

\* The object a handler returns from its try block.
SuccessEnvelope(body) == [content |-> <<[type |-> "text", text |-> body]>>]
\* FailureEnvelope without the isError flag.
FailureEnvelopeNoFlag(message) ==
    [content |-> <<[type |-> "text",
                    text |-> [success |-> FALSE, error |-> message, data |-> Null]]>>]
\* The object a handler returns from its catch block.
FailureEnvelope(message) ==
    [content |-> <<[type |-> "text",
                    text |-> [success |-> FALSE, error |-> message, data |-> Null]]>>,
     isError |-> TRUE]

(***************************************************************************)
(* State.                                                                  *)
(***************************************************************************)
VARIABLES
    tables,            \* the rows of companies, employees and services
    authorized_users,  \* the rows of the authorization table
    nextId,            \* the next serial identifier of each table
    now,               \* the clock that stamps created_at and updated_at
    req,               \* the handler invocations: position, locals, result
    server             \* the process: start-up phase, probe result, exit status, reply;
                       \* HTTP variant: session table, transports made, last response
vars == <<tables, authorized_users, nextId, now, req, server>>

TableNames == {"companies", "employees", "services"}
\* Requests that may run at once: one in Spec.
Requests == {"r1"}
AllRequests == {"r1", "r2"}

IdleRequest ==
    [pc |-> "idle", op |-> "none", args |-> EmptyObj, data |-> EmptyObj,
     existing |-> {}, company |-> {}, authorized |-> "unchecked",
     calls |-> <<>>, result |-> {}]

\* What a caller may send.
IdArgs == 0..MaxId
\* Organization codes: those of the two initial companies and one of no company
\* (createCompany assigns no code, so no other code ever comes into use).
CodeArgs == {1, 2, 3}
Tokens == {"T1"}
\* phone_number values of authorized_users rows.
PhoneNumbers == {"T1", "undefined"}

ArgsOf(op) ==
    CASE op = "list_companies" -> {EmptyObj, [name |-> "a"]}
      [] op = "create_company" -> {[name |-> n] : n \in {"a", "", LongName}} \cup {EmptyObj}
      [] op = "update_company" ->
            {[id |-> i] : i \in IdArgs} \cup {[id |-> i, name |-> "b"] : i \in IdArgs}
      [] op = "delete_company" -> {[id |-> i] : i \in IdArgs}
      [] op = "list_employees" -> {[company_id |-> c] : c \in CodeArgs} \cup {EmptyObj}
      [] op = "create_employee" ->
            {[name |-> "a", company_id |-> c] : c \in CodeArgs}
              \cup {[name |-> "a", email |-> GoodEmail, phone |-> "555", company_id |-> c] :
                      c \in CodeArgs}
              \cup {[name |-> "a"], [name |-> "a", email |-> BadEmail, company_id |-> 1],
                     [name |-> "a", email |-> GoodEmail, phone |-> "", company_id |-> 2]}
      [] op = "update_employee" ->
            {[id |-> i] : i \in IdArgs}
              \cup {[id |-> i, company_id |-> c] : i \in IdArgs \ {0}, c \in CodeArgs}
      [] op = "delete_employee" -> {[id |-> i] : i \in IdArgs}
      [] op = "list_services" ->
            {[company_id |-> c] : c \in CodeArgs}
              \cup {[company_id |-> c, category |-> g] : c \in {1, 2}, g \in {"hair", ""}}
              \cup {[company_id |-> 2, price_min |-> 10, price_max |-> 20],
                     [company_id |-> 2, price_min |-> 11],
                     [company_id |-> 2, price_max |-> 25],
                     [company_id |-> 2, category |-> "hair", price_min |-> 26],
                     [company_id |-> 2, price_min |-> 0],
                     EmptyObj}
      [] op = "create_service" ->
            {[name |-> "a", price |-> 25, duration |-> 30, company_id |-> c,
              user_number |-> t] : c \in CodeArgs, t \in Tokens}
              \cup {[name |-> "a", price |-> 0, duration |-> 30, company_id |-> 1,
                     user_number |-> "T1"],
                     [name |-> "a", price |-> 25, duration |-> 30, company_id |-> 2]}
      [] op = "update_service" ->
            {[id |-> i, user_number |-> t] : i \in IdArgs, t \in Tokens}
              \cup {[id |-> i, company_id |-> c, user_number |-> t] :
                      i \in IdArgs \ {0}, c \in CodeArgs, t \in Tokens}
              \cup {[id |-> 1]}
      [] OTHER -> {[id |-> i, user_number |-> t] : i \in IdArgs, t \in Tokens} \cup {[id |-> 1]}

(***************************************************************************)
(* The store as PostgREST answers it.                                      *)
(***************************************************************************)
RowsById(t, id) == {row \in tables[t] : row.id = id}
\* .from('companies').select(...).eq('company_id', code)
CompaniesByCode(code) == {c \in tables["companies"] : Has(c, "company_id") /\ c.company_id = code}
\* .single(): an error unless exactly one row is selected.
SingleOk(rows) == Cardinality(rows) = 1
\* .eq(column, value) sends `eq.${value}`.
EqFilter(v) == IF v = JsUndefined THEN "undefined" ELSE v
\* .eq('phone_number', user_number).eq('company_id', id)
AuthorizedRows(user_number, id) ==
    {a \in authorized_users : a.phone_number = EqFilter(user_number) /\ a.company_id = id}
\* employees.company_id and services.company_id reference companies.id.
ForeignKeyOk(t, rec) ==
    (t \in {"employees", "services"} /\ Has(rec, "company_id"))
        => \E c \in tables["companies"] : c.id = rec.company_id
\* The rows that reference a row and go with it when the store deletes it.
Children(t, id) == IF t = "companies"
                   THEN [x \in TableNames |->
                            IF x = "companies" THEN {}
                            ELSE {row \in tables[x] : row.company_id = id}]
                   ELSE [x \in TableNames |-> {}]
\* AfterDelete with a delete that removes nothing.
AfterDeleteKeepsRow(t, id) == tables
\* The tables after .from(t).delete().eq('id', id): no error when no row matches.
AfterDelete(t, id) ==
    [x \in TableNames |->
        IF x = t THEN tables[x] \ RowsById(t, id) ELSE tables[x] \ Children(t, id)[x]]

(***************************************************************************)
(* Pieces of the handlers and of the gateway.                              *)
(***************************************************************************)
\* The placeholders createEmployee writes for a missing email / phone.
SynthEmail == "employee_<Date.now>_<random>@company.local"
SynthPhone == "+1<ten digits>"
\* What a handler does to the parsed object before its first store call.
Defaults(op, data) ==
    IF op = "create_employee"
    THEN Merge(data,
               [email |-> IF Falsy(Get(data, "email")) THEN SynthEmail ELSE data.email,
                phone |-> IF Falsy(Get(data, "phone")) THEN SynthPhone ELSE data.phone])
    ELSE data

\* ChecksAuthorization with the check left out of update_service and delete_service.
ChecksAuthorizationOnCreateOnly(op) == op = "create_service"
\* Whether a handler calls validateUserAuthorization.
ChecksAuthorization(op) == op \in {"create_service", "update_service", "delete_service"}

\* FirstStep without the existence check of update.
FirstStepNoExistenceCheck(op) ==
    CASE KindOf(op) = "list" -> "list"
      [] KindOf(op) = "create" ->
            IF ChecksAuthorization(op) THEN "authCompany"
            ELSE IF op = "create_company" THEN "insert" ELSE "createLookup"
      [] KindOf(op) = "update" -> "update"
      [] OTHER -> "getById"
\* The first store call of a handler.
FirstStep(op) ==
    CASE KindOf(op) = "list" -> "list"
      [] KindOf(op) = "create" ->
            IF ChecksAuthorization(op) THEN "authCompany"
            ELSE IF op = "create_company" THEN "insert" ELSE "createLookup"
      [] OTHER -> "getById"
\* AfterGetById with the row fetched again instead of going on.
AfterGetByIdRefetches(op) == "getById"
\* The step after the existence check of update and delete.
AfterGetById(op) == IF ChecksAuthorization(op) THEN "authCompany" ELSE KindOf(op)
\* AfterAuthorization with create going straight to the insert.
AfterAuthorizationSkipsLookup(op) == IF KindOf(op) = "create" THEN "insert" ELSE KindOf(op)
\* The step after a passed authorization check.
AfterAuthorization(op) == IF KindOf(op) = "create" THEN "createLookup" ELSE KindOf(op)

\* The row getById returned.
TheRow(rows) == CHOOSE row \in rows : TRUE

\* The company_id handed to validateUserAuthorization.
AuthorizationScope(q) ==
    CASE q.op = "create_service" -> q.data.company_id
      [] q.op = "update_service" ->
            IF Has(q.data, "company_id") THEN q.data.company_id
            ELSE TheRow(q.existing).company_id
      [] OTHER -> TheRow(q.existing).company_id
\* The user_number handed to validateUserAuthorization.
AuthorizationToken(q) == Get(q.data, "user_number")

\* HandlerRecord with a user_number left on the record of the services handlers.
HandlerRecordKeepsToken(op, data) ==
    IF op \in ServiceTools THEN Merge(data, [user_number |-> "T1"]) ELSE data
\* const { user_number, ...rest } = data in the services handlers.
HandlerRecord(op, data) == IF op \in ServiceTools THEN Without(data, {"user_number"}) ELSE data
\* InsertRecord without the substitution of the resolved id.
InsertRecordUnresolved(op, data, company) == HandlerRecord(op, data)
\* The record createEmployee / createService insert: the resolved internal id
\* replaces the caller's company_id; createCompany inserts the record as is.
InsertRecord(op, data, company) ==
    IF op = "create_company" THEN HandlerRecord(op, data)
    ELSE Merge(HandlerRecord(op, data), [company_id |-> TheRow(company).id])
\* UpdateRecord that stamps updated_at only when a field besides id is sent.
UpdateRecordStampsOnChange(op, data) ==
    LET rec == Without(HandlerRecord(op, data), {"id"})
    IN IF DOMAIN rec = {} THEN rec ELSE Merge(rec, [updated_at |-> now])
\* The record updateX sends: everything but id, and updated_at.
UpdateRecord(op, data) == Merge(Without(HandlerRecord(op, data), {"id"}), [updated_at |-> now])

\* name ilike %needle% over the names of the model, none of which contains another.
ILike(hay, needle) == hay = needle
\* The rows a list query selects.
ListRows(op, filter) ==
    CASE op = "list_companies" ->
            {c \in tables["companies"] :
                /\ Falsy(Get(filter, "name")) \/ ILike(c.name, filter.name)
                /\ Falsy(Get(filter, "email")) \/ Get(c, "email") = filter.email}
      [] op = "list_employees" ->
            {e \in tables["employees"] :
                /\ e.company_id = filter.company_id
                /\ Falsy(Get(filter, "name")) \/ ILike(e.name, filter.name)
                /\ Falsy(Get(filter, "email")) \/ Get(e, "email") = filter.email}
      [] OTHER ->
            {s \in tables["services"] :
                /\ \E c \in CompaniesByCode(filter.company_id) : c.id = s.company_id
                /\ Falsy(Get(filter, "category")) \/ Get(s, "category") = filter.category
                /\ ~Has(filter, "price_min") \/ s.price >= filter.price_min
                /\ ~Has(filter, "price_max") \/ s.price <= filter.price_max}
\* .order('created_at', { ascending: false })
RECURSIVE OrderNewestFirst(_)
OrderNewestFirst(rows) ==
    IF rows = {} THEN <<>>
    ELSE LET newest == CHOOSE x \in rows : \A y \in rows : y.created_at <= x.created_at
         IN <<newest>> \o OrderNewestFirst(rows \ {newest})

\* One outbound store call, as logged.
StoreCall(table, verb, rec, ok) == [table |-> table, verb |-> verb, rec |-> rec, ok |-> ok]

\* return from the catch block
Fails(q, call, message) ==
    [q EXCEPT !.pc = "done", !.calls = Append(q.calls, call),
              !.result = {FailureEnvelope(message)}]
\* return from the try block
Succeeds(q, call, body) ==
    [q EXCEPT !.pc = "done", !.calls = Append(q.calls, call),
              !.result = {SuccessEnvelope(body)}]
\* on to the next await
Proceeds(q, call, step) == [q EXCEPT !.pc = step, !.calls = Append(q.calls, call)]

(***************************************************************************)
(* The server process: MCPServer.start and the tool-call request handler.  *)
(***************************************************************************)
\* The tools the request handler routes (the cases of its switch).
RegisteredTools == {"list_services", "create_service", "update_service", "delete_service"}
\* Tool names a client may send.
RequestedNames == ToolNames \cup {"no_such_tool"}
\* start() with the probe's result ignored.
AfterProbeIgnoresResult(connectionOk) == "probed"
\* start(): if (!connectionOk) throw ..., caught by process.exit(1).
AfterProbe(connectionOk) == IF connectionOk THEN "probed" ELSE "exited"
\* The exit status of a phase: process.exit(1) in the catch of start().
ExitStatus(phase) == IF phase = "exited" THEN {1} ELSE {}
\* The envelope of the request handler's own catch block.
UnknownToolEnvelope(name, args) ==
    [content |-> <<[type |-> "text",
                    text |-> [success |-> FALSE,
                              error |-> Message("Unknown tool: $P", "", "", 0, {name}),
                              tool |-> name, arguments |-> args]]>>,
     isError |-> TRUE]
\* The process is up and no reply of the request handler is on its way out.
Serving == server.phase = "serving" /\ server.reply = {}

(***************************************************************************)
(* Initial store: two companies, each with the other's internal id as its  *)
(* external code, and one employee and two services of company 1.          *)
(***************************************************************************)
InitCodes == <<2, 1>>
InitCompanies ==
    {[id |-> i, company_id |-> InitCodes[i], name |-> "a", created_at |-> i - 3,
      updated_at |-> i - 3] : i \in {1, 2}}
InitEmployees ==
    {[id |-> 1, name |-> "a", email |-> GoodEmail, phone |-> "555", company_id |-> 1,
      created_at |-> -1, updated_at |-> -1]}
InitServices ==
    {[id |-> 1, name |-> "a", price |-> 25, duration |-> 30, category |-> "hair",
      company_id |-> 1, created_at |-> -1, updated_at |-> -1],
     [id |-> 2, name |-> "a", price |-> 10, duration |-> 30, category |-> "",
      company_id |-> 1, created_at |-> -2, updated_at |-> -2]}
AuthRows == {[phone_number |-> p, company_id |-> i] : p \in PhoneNumbers, i \in {1, 2}}

Init ==
    /\ tables = [t \in TableNames |->
                    CASE t = "companies" -> InitCompanies
                      [] t = "employees" -> InitEmployees
                      [] OTHER -> InitServices]
    /\ authorized_users \in {A \in SUBSET AuthRows : Cardinality(A) <= MaxAuthRows}
    /\ nextId = [t \in TableNames |->
                    CASE t = "companies" -> 3 [] t = "employees" -> 2 [] OTHER -> 3]
    /\ now = 0
    /\ req = [r \in AllRequests |-> IdleRequest]
    /\ server = [phase |-> "starting", probe |-> "none", exit |-> {}, reply |-> {},
                 transports |-> {}, made |-> {}, last |-> {}]

(***************************************************************************)
(* The handlers, one action per await.                                     *)
(***************************************************************************)
\* A tool is called: schema.parse(args), then on to the first store call.
Call(r, op, args) ==
    /\ Serving
    /\ req[r].pc = "idle"
    /\ KindOf(op) \in {"create", "update"} => now < MaxClock
    /\ LET parsed == Parse(op, args)
           fresh == [IdleRequest EXCEPT !.op = op, !.args = args]
       IN req' = [req EXCEPT ![r] =
                    IF parsed.issues # {}
                    THEN [fresh EXCEPT !.pc = "done",
                                       !.result = {FailureEnvelope(ZodMessage(parsed.issues))}]
                    ELSE [fresh EXCEPT !.pc = FirstStep(op),
                                       !.data = Defaults(op, parsed.value)]]
    /\ UNCHANGED <<tables, authorized_users, nextId, now, server>>

\* List that treats an empty result as a failure.
ListFailsOnEmpty(r, fault) ==
    LET q == req[r]
        call == StoreCall(TableOf(q.op), "select", EmptyObj, ~fault)
        rows == OrderNewestFirst(ListRows(q.op, q.data))
    IN /\ q.pc = "list"
       /\ req' = [req EXCEPT ![r] =
                    IF fault \/ rows = <<>>
                    THEN Fails(q, call, StoreMessage("list", TableOf(q.op)))
                    ELSE Succeeds(q, call,
                           [success |-> TRUE, data |-> rows, count |-> Len(rows),
                            message |-> Message("Found $N $E(s)", TableOf(q.op), "",
                                                Len(rows), {})])]
       /\ UNCHANGED <<tables, authorized_users, nextId, now, server>>
\* db.listCompanies / listEmployees / listServices
List(r, fault) ==
    LET q == req[r]
        call == StoreCall(TableOf(q.op), "select", EmptyObj, ~fault)
        rows == OrderNewestFirst(ListRows(q.op, q.data))
    IN /\ q.pc = "list"
       /\ req' = [req EXCEPT ![r] =
                    IF fault THEN Fails(q, call, StoreMessage("list", TableOf(q.op)))
                    ELSE Succeeds(q, call,
                           [success |-> TRUE, data |-> rows, count |-> Len(rows),
                            message |-> Message("Found $N $E(s)", TableOf(q.op), "",
                                                Len(rows), {})])]
       /\ UNCHANGED <<tables, authorized_users, nextId, now, server>>

\* db.getCompanyById / getEmployeeById / getServiceById and the handler's check
GetById(r, fault) ==
    LET q == req[r]
        call == StoreCall(TableOf(q.op), "select", EmptyObj, ~fault)
        rows == RowsById(TableOf(q.op), q.data.id)
    IN /\ q.pc = "getById"
       /\ req' = [req EXCEPT ![r] =
                    IF fault THEN Fails(q, call, StoreMessage("get", TableOf(q.op)))
                    ELSE IF ~SingleOk(rows) THEN Fails(q, call, NotFoundMessage(q.op, q.data.id))
                    ELSE [Proceeds(q, call, AfterGetById(q.op)) EXCEPT !.existing = rows]]
       /\ UNCHANGED <<tables, authorized_users, nextId, now, server>>

\* validateUserAuthorization, first query: the company with the given code
AuthCompany(r, fault) ==
    LET q == req[r]
        call == StoreCall("companies", "select", EmptyObj, ~fault)
        rows == CompaniesByCode(AuthorizationScope(q))
    IN /\ q.pc = "authCompany"
       /\ req' = [req EXCEPT ![r] =
                    IF fault \/ ~SingleOk(rows)
                    THEN [Fails(q, call, NotAuthorizedMessage(q.op)) EXCEPT !.authorized = "false"]
                    ELSE [Proceeds(q, call, "authUser") EXCEPT !.company = rows]]
       /\ UNCHANGED <<tables, authorized_users, nextId, now, server>>

\* validateUserAuthorization, second query: the authorized_users row
AuthUser(r, fault) ==
    LET q == req[r]
        call == StoreCall("authorized_users", "select", EmptyObj, ~fault)
        rows == AuthorizedRows(AuthorizationToken(q), TheRow(q.company).id)
    IN /\ q.pc = "authUser"
       /\ req' = [req EXCEPT ![r] =
                    IF fault \/ ~SingleOk(rows)
                    THEN [Fails(q, call, NotAuthorizedMessage(q.op)) EXCEPT !.authorized = "false"]
                    ELSE [Proceeds(q, call, AfterAuthorization(q.op)) EXCEPT !.authorized = "true"]]
       /\ UNCHANGED <<tables, authorized_users, nextId, now, server>>

\* db.createEmployee / createService, first query: resolve the company code
CreateLookup(r, fault) ==
    LET q == req[r]
        call == StoreCall("companies", "select", EmptyObj, ~fault)
        rows == CompaniesByCode(q.data.company_id)
    IN /\ q.pc = "createLookup"
       /\ req' = [req EXCEPT ![r] =
                    IF fault \/ ~SingleOk(rows)
                    THEN Fails(q, call, ParentNotFoundMessage(q.data.company_id))
                    ELSE [Proceeds(q, call, "insert") EXCEPT !.company = rows]]
       /\ UNCHANGED <<tables, authorized_users, nextId, now, server>>

\* db.createCompany, and the insert of db.createEmployee / createService
Insert(r, fault) ==
    LET q == req[r]
        t == TableOf(q.op)
        rec == InsertRecord(q.op, q.data, q.company)
        ok == ~fault /\ ForeignKeyOk(t, rec)
        call == StoreCall(t, "insert", rec, ok)
        row == Merge(rec, [id |-> nextId[t], created_at |-> now, updated_at |-> now])
    IN /\ q.pc = "insert"
       /\ IF ok
          THEN /\ tables' = [tables EXCEPT ![t] = @ \cup {row}]
               /\ nextId' = [nextId EXCEPT ![t] = @ + 1]
               /\ now' = now + 1
               /\ req' = [req EXCEPT ![r] =
                            Succeeds(q, call,
                              [success |-> TRUE, data |-> row,
                               message |-> Message("$E $P created successfully with ID $N",
                                                   EntityName(q.op), "", row.id, {row.name})])]
          ELSE /\ req' = [req EXCEPT ![r] = Fails(q, call, StoreMessage("create", t))]
               /\ UNCHANGED <<tables, nextId, now>>
       /\ UNCHANGED <<authorized_users, server>>

\* Update that writes the record as a new row when no row has the id.
UpdateUpserts(r, fault) ==
    LET q == req[r]
        t == TableOf(q.op)
        rec == UpdateRecord(q.op, q.data)
        rows == RowsById(t, q.data.id)
        ok == ~fault /\ ForeignKeyOk(t, rec)
        call == StoreCall(t, "update", rec, ok)
        row == Merge(IF rows = {} THEN [id |-> q.data.id] ELSE TheRow(rows), rec)
    IN /\ q.pc = "update"
       /\ IF ok
          THEN /\ tables' = [tables EXCEPT ![t] = (@ \ rows) \cup {row}]
               /\ now' = now + 1
               /\ req' = [req EXCEPT ![r] =
                            Succeeds(q, call,
                              [success |-> TRUE, data |-> row,
                               message |-> Message("$E $P updated successfully",
                                                   EntityName(q.op), "", 0, {})])]
          ELSE /\ req' = [req EXCEPT ![r] = Fails(q, call, StoreMessage("update", t))]
               /\ UNCHANGED <<tables, now>>
       /\ UNCHANGED <<authorized_users, nextId, server>>
\* db.updateCompany / updateEmployee / updateService
Update(r, fault) ==
    LET q == req[r]
        t == TableOf(q.op)
        rec == UpdateRecord(q.op, q.data)
        rows == RowsById(t, q.data.id)
        ok == ~fault /\ SingleOk(rows) /\ ForeignKeyOk(t, rec)
        call == StoreCall(t, "update", rec, ok)
        row == Merge(TheRow(rows), rec)
    IN /\ q.pc = "update"
       /\ IF ok
          THEN /\ tables' = [tables EXCEPT ![t] = (@ \ rows) \cup {row}]
               /\ now' = now + 1
               /\ req' = [req EXCEPT ![r] =
                            Succeeds(q, call,
                              [success |-> TRUE, data |-> row,
                               message |-> Message("$E $P updated successfully",
                                                   EntityName(q.op), "", 0, {row.name})])]
          ELSE /\ req' = [req EXCEPT ![r] = Fails(q, call, StoreMessage("update", t))]
               /\ UNCHANGED <<tables, now>>
       /\ UNCHANGED <<authorized_users, nextId, server>>

\* Delete whose store call never returns.
DeleteNeverReturns(r, fault) ==
    /\ req[r].pc = "delete"
    /\ UNCHANGED vars
\* db.deleteCompany / deleteEmployee / deleteService
Delete(r, fault) ==
    LET q == req[r]
        t == TableOf(q.op)
        id == q.data.id
        call == StoreCall(t, "delete", [id |-> id], ~fault)
        name == TheRow(q.existing).name
    IN /\ q.pc = "delete"
       /\ IF ~fault
          THEN /\ tables' = AfterDelete(t, id)
               /\ req' = [req EXCEPT ![r] =
                            Succeeds(q, call,
                              [success |-> TRUE, data |-> [id |-> id, name |-> name],
                               message |-> Message("$E $P deleted successfully",
                                                   EntityName(q.op), "", 0, {name})])]
          ELSE /\ req' = [req EXCEPT ![r] = Fails(q, call, StoreMessage("delete", t))]
               /\ UNCHANGED tables
       /\ UNCHANGED <<authorized_users, nextId, now, server>>

\* Return with the locals of the finished call left in place.
ReturnKeepsLocals(r) ==
    /\ req[r].pc = "done"
    /\ req' = [req EXCEPT ![r].pc = "idle"]
    /\ UNCHANGED <<tables, authorized_users, nextId, now, server>>
\* The envelope goes back to the transport; nothing of the call is kept.
Return(r) ==
    /\ req[r].pc = "done"
    /\ req' = [req EXCEPT ![r] = IdleRequest]
    /\ UNCHANGED <<tables, authorized_users, nextId, now, server>>

\* start(): await this.db.testConnection()
TestConnection(connectionOk) ==
    /\ server.phase = "starting"
    /\ server' = [server EXCEPT !.phase = AfterProbe(connectionOk),
                                !.probe = IF connectionOk THEN "ok" ELSE "failed",
                                !.exit = ExitStatus(AfterProbe(connectionOk))]
    /\ UNCHANGED <<tables, authorized_users, nextId, now, req>>

\* start(): await this.server.connect(transport); a throw ends in process.exit(1)
Connect(fault) ==
    /\ server.phase = "probed"
    /\ server' = [server EXCEPT !.phase = IF fault THEN "exited" ELSE "serving",
                                !.exit = ExitStatus(IF fault THEN "exited" ELSE "serving")]
    /\ UNCHANGED <<tables, authorized_users, nextId, now, req>>

\* The request handler's switch on a name it has no case for: default -> throw,
\* caught by the handler's own catch.
Dispatch(name, args) ==
    /\ Serving
    /\ \A r \in Requests : req[r].pc = "idle"
    /\ name \notin RegisteredTools
    /\ server' = [server EXCEPT !.reply = {UnknownToolEnvelope(name, args)}]
    /\ UNCHANGED <<tables, authorized_users, nextId, now, req>>

\* The reply of the request handler goes back to the client.
Respond ==
    /\ server.reply # {}
    /\ server' = [server EXCEPT !.reply = {}]
    /\ UNCHANGED <<tables, authorized_users, nextId, now, req>>

TestConnectionStep == \E connectionOk \in BOOLEAN : TestConnection(connectionOk)
ConnectStep == \E fault \in BOOLEAN : Connect(fault)
DispatchStep == \E name \in RequestedNames : Dispatch(name, EmptyObj)
RespondStep == Respond
CallStep == \E r \in Requests, op \in ToolNames : \E args \in ArgsOf(op) : Call(r, op, args)
ListStep == \E r \in Requests, fault \in BOOLEAN : List(r, fault)
GetByIdStep == \E r \in Requests, fault \in BOOLEAN : GetById(r, fault)
AuthCompanyStep == \E r \in Requests, fault \in BOOLEAN : AuthCompany(r, fault)
AuthUserStep == \E r \in Requests, fault \in BOOLEAN : AuthUser(r, fault)
CreateLookupStep == \E r \in Requests, fault \in BOOLEAN : CreateLookup(r, fault)
InsertStep == \E r \in Requests, fault \in BOOLEAN : Insert(r, fault)
UpdateStep == \E r \in Requests, fault \in BOOLEAN : Update(r, fault)
DeleteStep == \E r \in Requests, fault \in BOOLEAN : Delete(r, fault)
ReturnStep == \E r \in Requests : Return(r)

Next ==
    \/ TestConnectionStep
    \/ ConnectStep
    \/ DispatchStep
    \/ RespondStep
    \/ CallStep
    \/ ListStep
    \/ GetByIdStep
    \/ AuthCompanyStep
    \/ AuthUserStep
    \/ CreateLookupStep
    \/ InsertStep
    \/ UpdateStep
    \/ DeleteStep
    \/ ReturnStep

Spec == Init /\ [][Next]_vars

(***************************************************************************)
(* Two tool calls in flight: each handler is suspended at its awaits, so   *)
(* the store calls of the two interleave in any order; meanwhile another   *)
(* client of the store may take a row out of authorized_users.             *)
(***************************************************************************)
\* The calls made while another call may be in flight.
ConcurrentCalls ==
    {[op |-> "delete_company", args |-> [id |-> 1]],
     [op |-> "delete_employee", args |-> [id |-> 1]],
     [op |-> "update_company", args |-> [id |-> 1, name |-> "b"]],
     [op |-> "update_service", args |-> [id |-> 1, user_number |-> "T1"]],
     [op |-> "delete_service", args |-> [id |-> 1, user_number |-> "T1"]],
     [op |-> "create_service",
      args |-> [name |-> "a", price |-> 25, duration |-> 30, company_id |-> 1,
                user_number |-> "T1"]]}

\* A row of authorized_users is deleted by someone else while the server runs.
ExternalRevoke(a) ==
    /\ server.phase = "serving"
    /\ a \in authorized_users
    /\ authorized_users' = authorized_users \ {a}
    /\ UNCHANGED <<tables, nextId, now, req, server>>

\* The next store call of a handler returns (with an answer or an error); the
\* finished handler returns its envelope.
HandlerStep(r) ==
    \/ \E fault \in BOOLEAN :
          \/ GetById(r, fault)
          \/ AuthCompany(r, fault)
          \/ AuthUser(r, fault)
          \/ CreateLookup(r, fault)
          \/ Insert(r, fault)
          \/ Update(r, fault)
          \/ Delete(r, fault)
    \/ Return(r)

ConcurrentCallStep == \E r \in AllRequests, c \in ConcurrentCalls : Call(r, c.op, c.args)
ConcurrentGetByIdStep == \E r \in AllRequests, fault \in BOOLEAN : GetById(r, fault)
ConcurrentAuthCompanyStep == \E r \in AllRequests, fault \in BOOLEAN : AuthCompany(r, fault)
ConcurrentAuthUserStep == \E r \in AllRequests, fault \in BOOLEAN : AuthUser(r, fault)
ConcurrentCreateLookupStep == \E r \in AllRequests, fault \in BOOLEAN : CreateLookup(r, fault)
ConcurrentInsertStep == \E r \in AllRequests, fault \in BOOLEAN : Insert(r, fault)
ConcurrentUpdateStep == \E r \in AllRequests, fault \in BOOLEAN : Update(r, fault)
ConcurrentDeleteStep == \E r \in AllRequests, fault \in BOOLEAN : Delete(r, fault)
ConcurrentReturnStep == \E r \in AllRequests : Return(r)
ExternalRevokeStep == \E a \in AuthRows : ExternalRevoke(a)

NextConcurrent ==
    \/ TestConnectionStep
    \/ ConnectStep
    \/ ConcurrentCallStep
    \/ ConcurrentGetByIdStep
    \/ ConcurrentAuthCompanyStep
    \/ ConcurrentAuthUserStep
    \/ ConcurrentCreateLookupStep
    \/ ConcurrentInsertStep
    \/ ConcurrentUpdateStep
    \/ ConcurrentDeleteStep
    \/ ConcurrentReturnStep
    \/ ExternalRevokeStep

SpecConcurrent == Init /\ [][NextConcurrent]_vars
\* The store calls of r2 all return; those of r1 may never return.
SpecLive == SpecConcurrent /\ WF_vars(HandlerStep("r2"))

(***************************************************************************)
(* The HTTP variant of the server: the routes of /mcp and the session      *)
(* table this.transports.  server.transports is the table (session id ->   *)
(* transport), server.made the transports created so far with their        *)
(* session id and state, server.last the response to the request being     *)
(* answered.                                                               *)
(***************************************************************************)
\* randomUUID(): the n-th transport gets the n-th identifier.
SessionNames == <<"s1", "s2", "s3", "s4">>
SessionIds == {SessionNames[i] : i \in 1..MaxSessions}
\* Properties every object literal inherits from Object.prototype.
ObjectPrototypeKeys == {"constructor"}
\* mcp-session-id header values; "" is an absent (or empty) header.
HeaderValues == SessionIds \cup {"", "s-unknown"} \cup ObjectPrototypeKeys
\* The entries of the table under a session id.
OwnEntries(sid) == {e \in server.transports : e.sid = sid}
\* this.transports[sessionId] is truthy: an entry, or an inherited property.
TableHas(sid) == OwnEntries(sid) # {} \/ sid \in ObjectPrototypeKeys
\* CloseEntry that leaves the entry in the table.
CloseEntryKeeps(table, sid) == table
\* transport.onclose: delete this.transports[transport.sessionId]
CloseEntry(table, sid) == {e \in table : e.sid # sid}
\* transport.close() of the transports with these session ids.
Closed(made, sids) ==
    {IF t.sid \in sids /\ t.state = "open" THEN [t EXCEPT !.state = "closed"] ELSE t :
        t \in made}
RECURSIVE CloseEntries(_, _)
CloseEntries(table, sids) ==
    IF sids = {} THEN table
    ELSE LET sid == CHOOSE x \in sids : TRUE
         IN CloseEntries(CloseEntry(table, sid), sids \ {sid})
\* The response to a request and what it was.
Response(method, sid, init, outcome) ==
    [method |-> method, sid |-> sid, init |-> init, outcome |-> outcome]
\* transport.handleRequest on what this.transports[sessionId] gave: a transport
\* handles the request; an inherited property has no handleRequest, the route's
\* promise rejects and Express answers 500.
Handled(sid) == IF OwnEntries(sid) # {} THEN "dispatched" ELSE "500"
Listening == server.phase = "serving" /\ server.last = {}

\* POST /mcp, except the branch that creates a transport
HttpPost(sid, init) ==
    /\ Listening
    /\ ~(sid = "" /\ init)
    /\ server' = [server EXCEPT !.last =
                    {Response("POST", sid, init,
                              IF sid # "" /\ TableHas(sid) THEN Handled(sid) ELSE "400")}]
    /\ UNCHANGED <<tables, authorized_users, nextId, now, req>>

\* POST /mcp without session id and with an initialize body: a transport is
\* made and the route awaits this.server.connect(transport)
HttpPostInitialize ==
    /\ Listening
    /\ Cardinality(server.made) < MaxSessions
    /\ server' = [server EXCEPT !.made =
                    @ \cup {[id |-> Cardinality(server.made) + 1, sid |-> "", state |-> "new"]}]
    /\ UNCHANGED <<tables, authorized_users, nextId, now, req>>

\* ... connect returns and transport.handleRequest initializes the session:
\* the id is generated and onsessioninitialized stores the transport
HttpInitialize(t, fault) ==
    /\ Listening
    /\ t \in server.made
    /\ t.state = "new"
    /\ server' =
          IF fault
          THEN [server EXCEPT !.made = (@ \ {t}) \cup {[t EXCEPT !.state = "failed"]},
                              !.last = {Response("POST", "", TRUE, "500")}]
          ELSE [server EXCEPT !.made = (@ \ {t}) \cup {[t EXCEPT !.state = "open",
                                                                 !.sid = SessionNames[t.id]]},
                              !.transports = @ \cup {[sid |-> SessionNames[t.id], tr |-> t.id]},
                              !.last = {Response("POST", "", TRUE, "dispatched")}]
    /\ UNCHANGED <<tables, authorized_users, nextId, now, req>>

\* GET /mcp
HttpGet(sid) ==
    /\ Listening
    /\ server' = [server EXCEPT !.last =
                    {Response("GET", sid, FALSE,
                              IF sid = "" \/ ~TableHas(sid) THEN "400" ELSE Handled(sid))}]
    /\ UNCHANGED <<tables, authorized_users, nextId, now, req>>

\* DELETE /mcp: the transport of a known session handles it by closing
HttpDelete(sid) ==
    /\ Listening
    /\ server' = [server EXCEPT
                    !.last = {Response("DELETE", sid, FALSE,
                                       IF sid = "" \/ ~TableHas(sid) THEN "400"
                                       ELSE Handled(sid))},
                    !.made = IF OwnEntries(sid) # {} THEN Closed(@, {sid}) ELSE @,
                    !.transports = IF OwnEntries(sid) # {} THEN CloseEntry(@, sid) ELSE @]
    /\ UNCHANGED <<tables, authorized_users, nextId, now, req>>

\* The response is sent.
HttpRespond ==
    /\ server.last # {}
    /\ server' = [server EXCEPT !.last = {}]
    /\ UNCHANGED <<tables, authorized_users, nextId, now, req>>

\* stop() on SIGINT / SIGTERM, then process.exit(0)
Stop ==
    /\ server.phase = "serving"
    /\ LET sids == {e.sid : e \in server.transports}
       IN server' = [server EXCEPT !.made = Closed(@, sids),
                                   !.transports = CloseEntries(@, sids),
                                   !.last = {},
                                   !.phase = "exited",
                                   !.exit = {0}]
    /\ UNCHANGED <<tables, authorized_users, nextId, now, req>>

HttpPostStep == \E sid \in HeaderValues, init \in BOOLEAN : HttpPost(sid, init)
HttpPostInitializeStep == HttpPostInitialize
HttpInitializeStep == \E t \in server.made, fault \in BOOLEAN : HttpInitialize(t, fault)
HttpGetStep == \E sid \in HeaderValues : HttpGet(sid)
HttpDeleteStep == \E sid \in HeaderValues : HttpDelete(sid)
HttpRespondStep == HttpRespond
StopStep == Stop

NextHttp ==
    \/ TestConnectionStep
    \/ ConnectStep
    \/ HttpPostStep
    \/ HttpPostInitializeStep
    \/ HttpInitializeStep
    \/ HttpGetStep
    \/ HttpDeleteStep
    \/ HttpRespondStep
    \/ StopStep

SpecHttp == Init /\ [][NextHttp]_vars

(***************************************************************************)
(* Reading a request and its envelope.                                     *)
(***************************************************************************)
Done(q) == q.pc = "done"
EnvelopeOf(q) == CHOOSE e \in q.result : TRUE
BodyOf(q) == EnvelopeOf(q).content[1].text
Succeeded(q) == Done(q) /\ BodyOf(q).success
Failed(q) == Done(q) /\ ~BodyOf(q).success
ErrorOf(q) == BodyOf(q).error
\* Every store call of the request so far was answered without a store error.
StoreAnswered(q) == \A i \in DOMAIN q.calls : q.calls[i].ok
IsWrite(call) == call.verb \in {"insert", "update", "delete"}
WritesTo(q, t) == {i \in DOMAIN q.calls : q.calls[i].table = t /\ IsWrite(q.calls[i])}
ValidArgs(q) == ZodIssues(SchemaOf(q.op), q.args) = {}

\* The authorized-principal mapping: the token the caller sent is permitted
\* for the organization with this internal id / this external code.
CallerToken(q) == Get(q.args, "user_number")
PermittedForId(token, id) ==
    \E a \in authorized_users : a.phone_number = token /\ a.company_id = id
PermittedForCode(token, code) ==
    \E c \in CompaniesByCode(code) : PermittedForId(token, c.id)
\* The requester is authorized for the organization the mutation is scoped to.
CallerAuthorized(q) ==
    CASE q.op = "create_service" -> PermittedForCode(CallerToken(q), q.args.company_id)
      [] q.op = "update_service" /\ Has(q.args, "company_id") ->
            PermittedForCode(CallerToken(q), q.args.company_id)
      [] OTHER -> \E row \in q.existing : PermittedForId(CallerToken(q), row.company_id)
\* The mutation got as far as its authorization check.
ReachedAuthorization(q) ==
    /\ q.op \in {"create_service", "update_service", "delete_service"}
    /\ ValidArgs(q)
    /\ q.op = "create_service" \/ q.existing # {}

(***************************************************************************)
(* C1: every create_service, update_service or delete_service call whose   *)
(* requester token is not authorized returns a failure envelope with the   *)
(* authorization error (when the store answers every call), and no insert, *)
(* update or delete reaches the services table.                            *)
(***************************************************************************)
C1_UnauthorizedMutationRefused ==
    \A r \in AllRequests :
        LET q == req[r]
        IN (Done(q) /\ ReachedAuthorization(q) /\ ~CallerAuthorized(q))
              => /\ Failed(q)
                 /\ WritesTo(q, "services") = {}
                 /\ StoreAnswered(q) => ErrorOf(q) = NotAuthorizedMessage(q.op)

(***************************************************************************)
(* C2: create_service with a valid payload returns a success envelope      *)
(* carrying the created record when the token is authorized for that       *)
(* organization, and a failure envelope saying the user is not authorized  *)
(* when it is not (the store answering every call).                        *)
(***************************************************************************)
C2_CreateServiceFollowsAuthorization ==
    \A r \in AllRequests :
        LET q == req[r]
        IN (Done(q) /\ q.op = "create_service" /\ ValidArgs(q) /\ StoreAnswered(q))
              => IF CallerAuthorized(q)
                 THEN Succeeded(q) /\ BodyOf(q).data.name = q.args.name
                 ELSE Failed(q) /\ ErrorOf(q) = NotAuthorizedMessage(q.op)

(***************************************************************************)
(* C3: every write of an employees or services row that carries a          *)
(* caller-supplied organization code (create and update) stores the        *)
(* internal identifier that code resolves to, and is rejected when no      *)
(* organization has the code.                                              *)
(***************************************************************************)
C3_WritesStoreResolvedOrganization ==
    \A r \in AllRequests :
        LET q == req[r]
        IN \A i \in DOMAIN q.calls :
              (/\ q.calls[i].table \in {"employees", "services"}
               /\ q.calls[i].verb \in {"insert", "update"}
               /\ Has(q.args, "company_id"))
                 => /\ CompaniesByCode(q.args.company_id) = {} => ~q.calls[i].ok
                    /\ q.calls[i].ok =>
                          \E c \in CompaniesByCode(q.args.company_id) :
                              q.calls[i].rec.company_id = c.id

(***************************************************************************)
(* C4: the gateway's create for employees and services looks the           *)
(* organization up by its external code right before the insert; when no   *)
(* organization has the code nothing is inserted, and a create whose       *)
(* lookup yields no organization fails with "Company with company_id ...   *)
(* not found"; when it yields one, the inserted record's company_id is the *)
(* resolved internal identifier.                                           *)
(***************************************************************************)
C4_CreateResolvesOrganization ==
    \A r \in AllRequests :
        LET q == req[r]
            n == Len(q.calls)
            code == q.args.company_id
        IN q.op \in {"create_employee", "create_service"} =>
              /\ \A i \in DOMAIN q.calls :
                    q.calls[i].verb = "insert" =>
                       /\ i > 1
                       /\ q.calls[i - 1].table = "companies"
                       /\ q.calls[i - 1].verb = "select"
                       /\ q.calls[i - 1].ok
                       /\ \E c \in CompaniesByCode(code) : q.calls[i].rec.company_id = c.id
              /\ (Done(q) /\ ValidArgs(q) /\ CompaniesByCode(code) = {}) =>
                    /\ Failed(q)
                    /\ WritesTo(q, TableOf(q.op)) = {}
              /\ (/\ Failed(q)
                  /\ n >= 1
                  /\ q.op = "create_employee" \/ q.authorized = "true"
                  /\ q.calls[n].table = "companies") =>
                    ErrorOf(q) = ParentNotFoundMessage(code)
              /\ Succeeded(q) =>
                    /\ \E c \in CompaniesByCode(code) : BodyOf(q).data.company_id = c.id
                    /\ BodyOf(q).data \in tables[TableOf(q.op)]
\* An employee was inserted under an organization whose code differs from its id.
C4_Witness ==
    \E r \in AllRequests :
        /\ Succeeded(req[r])
        /\ req[r].op = "create_employee"
        /\ BodyOf(req[r]).data.company_id # req[r].args.company_id
        /\ BodyOf(req[r]).data \in tables["employees"]

(***************************************************************************)
(* C5: update_company, update_employee and update_service called with an   *)
(* identifier that matches no row fail, issue no update call, and (valid    *)
(* arguments, the store answering) report "... with ID <id> not found".    *)
(***************************************************************************)
C5_UpdateOfMissingRowNotFound ==
    \A r \in AllRequests :
        LET q == req[r]
        IN (/\ q.op \in {"update_company", "update_employee", "update_service"}
            /\ RowsById(TableOf(q.op), q.args.id) = {})
              => /\ \A i \in DOMAIN q.calls : q.calls[i].verb # "update"
                 /\ Done(q) => Failed(q)
                 /\ (Done(q) /\ ValidArgs(q) /\ StoreAnswered(q)) =>
                       ErrorOf(q) = NotFoundMessage(q.op, q.args.id)
C5_Witness ==
    \E r \in AllRequests :
        /\ Failed(req[r])
        /\ req[r].op = "update_service"
        /\ RowsById("services", req[r].args.id) = {}
        /\ ErrorOf(req[r]) = NotFoundMessage("update_service", req[r].args.id)

(***************************************************************************)
(* C6: delete_company (and delete_employee) called on an existing row      *)
(* succeeds and removes the row (the store answering); called again with   *)
(* the same identifier, which now matches no row, it fails with "... with  *)
(* ID <id> not found" and changes nothing.                                 *)
(***************************************************************************)
C6_DeleteStep(r) ==
    LET before == req[r]
        after == req'[r]
        t == TableOf(after.op)
        id == after.args.id
    IN (/\ after.op \in {"delete_company", "delete_employee"}
        /\ ~Done(before)
        /\ Done(after))
          => IF RowsById(t, id) # {}
             THEN /\ StoreAnswered(after) => Succeeded(after)
                  /\ Succeeded(after) => {row \in tables'[t] : row.id = id} = {}
                  /\ Failed(after) => tables' = tables
             ELSE /\ Failed(after)
                  /\ tables' = tables
                  /\ (ValidArgs(after) /\ StoreAnswered(after)) =>
                        ErrorOf(after) = NotFoundMessage(after.op, id)
C6_DeleteTwice == [][\A r \in AllRequests : C6_DeleteStep(r)]_vars
\* The second delete_company of a company that an earlier call removed.
C6_Witness ==
    \E r \in AllRequests :
        /\ Failed(req[r])
        /\ req[r].op = "delete_company"
        /\ req[r].args.id \in 1..(nextId["companies"] - 1)
        /\ ErrorOf(req[r]) = NotFoundMessage("delete_company", req[r].args.id)

C8_InvalidArgumentsReachNoStoreCall ==
    \A r \in AllRequests :
        LET q == req[r]
        IN (q.op \in ToolNames /\ ~ValidArgs(q))
              => /\ Failed(q)
                 /\ q.calls = <<>>
                 /\ ErrorOf(q) = ZodMessage(ZodIssues(SchemaOf(q.op), q.args))
C8_Witness ==
    \E r \in AllRequests :
        /\ Failed(req[r])
        /\ req[r].op = "create_company"
        /\ Has(req[r].args, "name")
        /\ req[r].args.name = ""
        /\ req[r].calls = <<>>

(***************************************************************************)
(* C9: every handler result is an envelope whose content is exactly one    *)
(* text element; isError is present, and true, exactly when the body has   *)
(* success false, and then the body is {success: false, error: <string>,   *)
(* data: null}; on success isError is absent and success is true.          *)
(***************************************************************************)
C9_EnvelopeShape ==
    \A r \in AllRequests :
        LET q == req[r]
            e == EnvelopeOf(q)
            body == BodyOf(q)
        IN Done(q) =>
              /\ Cardinality(q.result) = 1
              /\ Len(e.content) = 1
              /\ e.content[1].type = "text"
              /\ DOMAIN e \subseteq {"content", "isError"}
              /\ Has(e, "isError") <=> ~body.success
              /\ Has(e, "isError") => e.isError
              /\ ~body.success =>
                    /\ DOMAIN body = {"success", "error", "data"}
                    /\ body.data = Null
                    /\ body.error.template \in STRING
              /\ body.success => Has(body, "data") /\ Has(body, "message")
C9_Witness ==
    \E r \in AllRequests :
        /\ Failed(req[r])
        /\ req[r].op = "create_company"
        /\ Has(EnvelopeOf(req[r]), "isError")

(***************************************************************************)
(* C10: each operation is one linear sequence of store calls: it makes     *)
(* them in its fixed order, goes on only after the previous call, returns  *)
(* success only after all of them, and otherwise stops at the first        *)
(* failing step with a failure envelope whose error is that step's; every  *)
(* finished handler has returned an envelope.                              *)
(***************************************************************************)
C10_Pipeline(op) ==
    LET t == TableOf(op)
        auth == <<<<"companies", "select">>, <<"authorized_users", "select">>>>
        lookup == <<<<"companies", "select">>>>
    IN CASE op \in {"list_companies", "list_employees", "list_services"} -> <<<<t, "select">>>>
         [] op = "create_company" -> <<<<t, "insert">>>>
         [] op = "create_employee" -> lookup \o <<<<t, "insert">>>>
         [] op = "create_service" -> auth \o lookup \o <<<<t, "insert">>>>
         [] op \in {"update_company", "update_employee"} -> <<<<t, "select">>, <<t, "update">>>>
         [] op = "update_service" -> <<<<t, "select">>>> \o auth \o <<<<t, "update">>>>
         [] op \in {"delete_company", "delete_employee"} -> <<<<t, "select">>, <<t, "delete">>>>
         [] OTHER -> <<<<t, "select">>>> \o auth \o <<<<t, "delete">>>>
\* The error templates a handler may report when it stops after its n-th call.
C10_Causes(op, n) ==
    LET step == C10_Pipeline(op)[n]
    IN IF n = 0 THEN {"ZodError"}
       ELSE IF step[1] = "authorized_users" \/ (step[1] = "companies" /\ op \in ServiceTools
                                                  /\ n < 3)
       THEN {"User not authorized to $V services for this company"}
       ELSE IF step = <<"companies", "select">> /\ op \in {"create_employee", "create_service"}
       THEN {"Company with company_id $N not found"}
       ELSE IF step[2] = "select" /\ op \notin {"list_companies", "list_employees", "list_services"}
       THEN {"$E with ID $N not found", "Failed to $V $E: $M"}
       ELSE {"Failed to $V $E: $M"}
C11_StoreFailureSurfaced ==
    \A r \in AllRequests :
        LET q == req[r]
            n == Len(q.calls)
        IN (Failed(q) /\ n >= 1 /\ ~q.calls[n].ok)
              => ErrorOf(q).template = "Failed to $V $E: $M"

(***************************************************************************)
(* C12: the record create_employee inserts has the placeholder email and   *)
(* the synthesized phone when the payload has neither, and exactly the     *)
(* supplied email and phone when the payload has both.                     *)
(***************************************************************************)
C12_EmployeeContactDefaults ==
    \A r \in AllRequests :
        LET q == req[r]
        IN \A i \in DOMAIN q.calls :
              (q.op = "create_employee" /\ q.calls[i].verb = "insert")
                 => /\ (~Has(q.args, "email") /\ ~Has(q.args, "phone"))
                          => /\ q.calls[i].rec.email = SynthEmail
                             /\ q.calls[i].rec.phone = SynthPhone
                    /\ (Has(q.args, "email") /\ Has(q.args, "phone"))
                          => /\ q.calls[i].rec.email = q.args.email
                             /\ q.calls[i].rec.phone = q.args.phone

(***************************************************************************)
(* C13: a successful list_services returns exactly the services of the     *)
(* organization with the given external code whose category equals the     *)
(* category filter when one is given and whose price is within the given   *)
(* inclusive bounds, the most recently created first.                      *)
(***************************************************************************)
C13_Expected(f) ==
    {s \in tables["services"] :
        /\ \E c \in CompaniesByCode(f.company_id) : c.id = s.company_id
        /\ Has(f, "category") => (Has(s, "category") /\ s.category = f.category)
        /\ Has(f, "price_min") => s.price >= f.price_min
        /\ Has(f, "price_max") => s.price <= f.price_max}
C13_ListServicesFilters ==
    \A r \in AllRequests :
        LET q == req[r]
            rows == BodyOf(q).data
        IN (Succeeded(q) /\ q.op = "list_services")
              => /\ {rows[i] : i \in DOMAIN rows} = C13_Expected(q.args)
                 /\ Len(rows) = Cardinality(C13_Expected(q.args))
                 /\ \A i, j \in DOMAIN rows :
                        i < j => rows[i].created_at >= rows[j].created_at

(***************************************************************************)
(* C14: a create_service, update_service or delete_service call without    *)
(* user_number is refused by validation: it ends with the validation error *)
(* and makes no store call.                                                *)
(***************************************************************************)
C14_TokenRequired ==
    \A r \in AllRequests :
        LET q == req[r]
        IN (/\ q.op \in {"create_service", "update_service", "delete_service"}
            /\ ~Has(q.args, "user_number"))
              => /\ Failed(q)
                 /\ q.calls = <<>>
                 /\ ErrorOf(q).template = "ZodError"

(***************************************************************************)
(* C15: the organization update_service and delete_service hand to the     *)
(* authorization check is the payload's company_id when present, else the  *)
(* existing row's; what is handed over is the external code of the         *)
(* organization it stands for (for the existing row: of the organization   *)
(* that owns the row); the update/delete is issued only after the check    *)
(* returned true.                                                          *)
(***************************************************************************)
C15_AuthorizationScopeIsCode ==
    \A r \in AllRequests :
        LET q == req[r]
        IN (q.op \in {"update_service", "delete_service"} /\ q.existing # {})
              => /\ q.pc = "authCompany" =>
                      /\ AuthorizationScope(q) =
                            IF q.op = "update_service" /\ Has(q.args, "company_id")
                            THEN q.args.company_id
                            ELSE TheRow(q.existing).company_id
                      /\ (q.op = "delete_service" \/ ~Has(q.args, "company_id")) =>
                            \E c \in tables["companies"] :
                                /\ c.id = TheRow(q.existing).company_id
                                /\ Has(c, "company_id")
                                /\ c.company_id = AuthorizationScope(q)
                 /\ WritesTo(q, "services") # {} => q.authorized = "true"

(***************************************************************************)
(* C16: when the connectivity probe fails the process exits with status 1  *)
(* and the transport is never connected, so no tool request is served; the *)
(* server serves only after a successful probe.                            *)
(***************************************************************************)
C16_StartupProbeIsFatal ==
    /\ server.probe = "failed" => (server.phase = "exited" /\ server.exit = {1})
    /\ server.phase = "serving" => (server.probe = "ok" /\ server.exit = {})
    /\ server.phase # "serving" =>
          /\ \A r \in AllRequests : req[r] = IdleRequest
          /\ server.reply = {}
          /\ tables["companies"] = InitCompanies
C16_Witness == server.probe = "failed" /\ server.phase = "exited"

(***************************************************************************)
(* C17 (as stated): no handler issues more than 3 outbound store calls.    *)
(***************************************************************************)
C17_AtMostThreeCalls == \A r \in AllRequests : Len(req[r].calls) <= 3
(***************************************************************************)
(* C17 (amended): every handler issues at most 4 outbound store calls, one *)
(* after another, none after a call that failed (no retry); the one query  *)
(* made twice is create_service's lookup of the company by code, once in   *)
(* the authorization check and once in the gateway's create.               *)
(***************************************************************************)
C17_AtMostFourCallsNoRetry ==
    \A r \in AllRequests :
        LET q == req[r]
            n == Len(q.calls)
        IN /\ n <= 4
           /\ \A i \in 1..(n - 1) : q.calls[i].ok
           /\ \A i, j \in 1..n :
                 (i < j /\ q.calls[i].table = q.calls[j].table
                        /\ q.calls[i].verb = q.calls[j].verb)
                    => (q.op = "create_service" /\ q.calls[i].table = "companies"
                        /\ i = 1 /\ j = 3)
C17_Witness ==
    \E r \in AllRequests : Succeeded(req[r]) /\ Len(req[r].calls) = 4

(***************************************************************************)
(* C18: a request that ends in a failure envelope changes no row: the      *)
(* store changes only in the step that completes a request successfully,   *)
(* no write call of a failed request took effect, and once its envelope is *)
(* returned nothing of a request remains in the process.                   *)
(***************************************************************************)
C18_Step(r) ==
    LET q == req[r]
        after == req'[r]
    IN /\ (after # q /\ ~Succeeded(after))
            => UNCHANGED <<tables, authorized_users, nextId, now>>
       /\ Failed(after) => \A i \in DOMAIN after.calls :
                              IsWrite(after.calls[i]) => ~after.calls[i].ok
       /\ (Done(q) /\ after # q) => after = IdleRequest
C18_FailureLeavesNoTrace == [][\A r \in AllRequests : C18_Step(r)]_vars
\* An insert the store refused.
C18_Witness ==
    \E r \in AllRequests :
        /\ Failed(req[r])
        /\ Len(req[r].calls) >= 1
        /\ req[r].calls[Len(req[r].calls)].verb = "insert"

(***************************************************************************)
(* C19: a tool call naming any of the twelve operations is routed to its   *)
(* handler: the request handler never answers one of the twelve names with *)
(* "Unknown tool".                                                         *)
(***************************************************************************)
C19_TwelveToolsRouted ==
    \A e \in server.reply : e.content[1].text.tool \notin ToolNames

(***************************************************************************)
(* C20: the record create_service and update_service hand to the gateway's *)
(* create / update has no user_number field, and no services row has one.  *)
(***************************************************************************)
C20_TokenNotPersisted ==
    /\ \A r \in AllRequests :
          LET q == req[r]
          IN \A i \in DOMAIN q.calls :
                (q.op \in {"create_service", "update_service"} /\ IsWrite(q.calls[i]))
                   => ~Has(q.calls[i].rec, "user_number")
    /\ \A s \in tables["services"] : ~Has(s, "user_number")
C20_Witness ==
    \E r \in AllRequests :
        /\ Succeeded(req[r])
        /\ req[r].op \in {"create_service", "update_service"}
        /\ Has(req[r].args, "user_number")
        /\ WritesTo(req[r], "services") # {}

(***************************************************************************)
(* C21: every gateway update sends updated_at set to the time of the call, *)
(* whatever fields the caller supplied, and the updated row carries it.    *)
(***************************************************************************)
C21_Step(r) ==
    LET q == req[r]
        after == req'[r]
        n == Len(after.calls)
    IN (q.pc = "update" /\ after # q)
          => /\ n = Len(q.calls) + 1
             /\ after.calls[n].verb = "update"
             /\ Has(after.calls[n].rec, "updated_at")
             /\ after.calls[n].rec.updated_at = now
             /\ after.calls[n].ok =>
                   /\ Succeeded(after)
                   /\ BodyOf(after).data.updated_at = now
                   /\ BodyOf(after).data \in tables'[TableOf(q.op)]
C21_UpdateStampsTime == [][\A r \in AllRequests : C21_Step(r)]_vars
\* An update whose payload was the identifier alone.
C21_Witness ==
    \E r \in AllRequests :
        /\ Succeeded(req[r])
        /\ KindOf(req[r].op) = "update"
        /\ DOMAIN req[r].args = {"id"}
        /\ BodyOf(req[r]).data.updated_at > BodyOf(req[r]).data.created_at

(***************************************************************************)
(* C22: a list operation with valid arguments whose query the store        *)
(* answers returns a success envelope, also with no matching row, and its  *)
(* count is the number of records in data.                                 *)
(***************************************************************************)
C22_ListSucceedsOnEmpty ==
    \A r \in AllRequests :
        LET q == req[r]
        IN (Done(q) /\ KindOf(q.op) = "list" /\ q.op \in ToolNames)
              => /\ (ValidArgs(q) /\ StoreAnswered(q)) => Succeeded(q)
                 /\ Succeeded(q) => BodyOf(q).count = Len(BodyOf(q).data)
C22_Witness ==
    \E r \in AllRequests :
        /\ Succeeded(req[r])
        /\ KindOf(req[r].op) = "list"
        /\ BodyOf(req[r]).data = <<>>
        /\ BodyOf(req[r]).count = 0

(***************************************************************************)
(* C24: a service is updated or deleted only on behalf of a principal that *)
(* the authorization table permits for the organization owning the service *)
(* (the principal being the token the handler submits to the check).       *)
(***************************************************************************)
C24_OnlyOwnersPrincipalsWrite ==
    \A r \in AllRequests :
        LET q == req[r]
        IN (Succeeded(q) /\ q.op \in {"update_service", "delete_service"})
              => PermittedForId(EqFilter(AuthorizationToken(q)),
                                TheRow(q.existing).company_id)

(***************************************************************************)
(* C25: a successful list_employees / list_services with organization code *)
(* C and no other filter returns every record created (by a create call)   *)
(* for the organization with code C.                                       *)
(***************************************************************************)
C25_CreateThenList ==
    \A r \in AllRequests :
        LET q == req[r]
            rows == BodyOf(q).data
        IN (Succeeded(q) /\ q.op \in {"list_employees", "list_services"}
                         /\ DOMAIN q.args = {"company_id"})
              => \A e \in tables[TableOf(q.op)] :
                    (/\ e.created_at >= 0
                     /\ \E c \in CompaniesByCode(q.args.company_id) : c.id = e.company_id)
                       => \E i \in DOMAIN rows : rows[i] = e

(***************************************************************************)
(* C23: a handler whose store calls all return eventually returns, with    *)
(* exactly one envelope, and it does so also while the store call of       *)
(* another handler never returns; a pending handler moves only when its    *)
(* own store call returns (nothing times it out or cancels it).            *)
(***************************************************************************)
C23_HandlerReturns ==
    /\ (req["r2"].pc \notin {"idle", "done"}) ~> Done(req["r2"])
    /\ [](\A r \in AllRequests : Done(req[r]) => Cardinality(req[r].result) = 1)
    /\ [][\A r \in AllRequests :
            (req[r].pc \notin {"idle", "done"} /\ req'[r] # req[r])
                => Len(req'[r].calls) = Len(req[r].calls) + 1]_vars
\* r2 has returned while r1 is still waiting for its delete call.
C23_Witness ==
    /\ Done(req["r2"])
    /\ Cardinality(req["r2"].result) = 1
    /\ req["r1"].pc = "delete"

(***************************************************************************)
(* C26: of two delete_company (or delete_employee) requests for the same   *)
(* identifier running concurrently, at most one returns a success          *)
(* envelope.                                                               *)
(***************************************************************************)
C26_OneDeleteWins ==
    \A a, b \in AllRequests :
        (/\ a # b
         /\ Succeeded(req[a])
         /\ Succeeded(req[b])
         /\ req[a].op \in {"delete_company", "delete_employee"}
         /\ req[a].op = req[b].op)
            => req[a].args.id # req[b].args.id

(***************************************************************************)
(* C27: an update that returns success modified a row that existed when    *)
(* the write was made; when the row is gone by then (deleted by another    *)
(* request after the existence check) the update fails and no row is       *)
(* created or changed.                                                     *)
(***************************************************************************)
C27_Step(r) ==
    LET q == req[r]
        after == req'[r]
        rows == RowsById(TableOf(q.op), q.data.id)
    IN (q.pc = "update" /\ after # q)
          => /\ Succeeded(after) =>
                   /\ rows # {}
                   /\ BodyOf(after).data.id = q.data.id
                   /\ tables'[TableOf(q.op)] = (tables[TableOf(q.op)] \ rows)
                                                  \cup {BodyOf(after).data}
             /\ rows = {} => (Failed(after) /\ tables' = tables)
C27_UpdateNeedsRow == [][\A r \in AllRequests : C27_Step(r)]_vars
\* update_company passed its existence check and then found the row gone.
C27_Witness ==
    \E r \in AllRequests :
        /\ Failed(req[r])
        /\ req[r].op = "update_company"
        /\ Len(req[r].calls) = 2
        /\ req[r].calls[1].ok
        /\ RowsById("companies", req[r].args.id) = {}

(***************************************************************************)
(* C28: a service insert, update or delete is applied only while the       *)
(* authorization the handler's check found (its principal, for the         *)
(* organization the check resolved) is still in authorized_users.          *)
(***************************************************************************)
C28_Step(r) ==
    LET q == req[r]
        after == req'[r]
    IN (/\ q.pc \in {"insert", "update", "delete"}
        /\ ChecksAuthorization(q.op)
        /\ Succeeded(after))
          => AuthorizedRows(AuthorizationToken(q), TheRow(q.company).id) # {}
C28_WriteWhileAuthorized == [][\A r \in AllRequests : C28_Step(r)]_vars

(***************************************************************************)
(* C29: the HTTP routes hand a request to a transport only if its session  *)
(* id is in the session table or it is a POST initialize request without   *)
(* session id; every other request is answered with 400, makes no          *)
(* transport and leaves the session table as it was.                       *)
(***************************************************************************)
C29_Step ==
    (server.last = {} /\ server'.last # {})
       => \A l \in server'.last :
             LET admitted == \/ OwnEntries(l.sid) # {}
                             \/ (l.method = "POST" /\ l.init /\ l.sid = "")
             IN /\ l.outcome = "dispatched" => admitted
                /\ ~admitted => /\ l.outcome = "400"
                                /\ server'.made = server.made
                                /\ server'.transports = server.transports
C29_OnlyKnownSessionsDispatched == [][C29_Step]_vars

(***************************************************************************)
(* C30: each entry of the session table maps a session id to the open      *)
(* transport that was initialized with that id; an entry is added only     *)
(* when a transport made by an initialize POST has its session             *)
(* initialized, it is removed when its transport closes, and stop() closes *)
(* every transport in the table.                                           *)
(***************************************************************************)
C30_TableInv ==
    /\ \A e \in server.transports :
          \E t \in server.made : t.id = e.tr /\ t.sid = e.sid /\ t.state = "open"
    /\ \A e, f \in server.transports : e.sid = f.sid => e = f
    /\ \A t \in server.made : t.state = "open" =>
          [sid |-> t.sid, tr |-> t.id] \in server.transports
C30_Step ==
    /\ \A e \in server'.transports \ server.transports :
          /\ \E t \in server.made : t.id = e.tr /\ t.state = "new"
          /\ \A l \in server'.last : l.method = "POST" /\ l.init /\ l.outcome = "dispatched"
          /\ server'.last # {}
    /\ \A e \in server.transports \ server'.transports :
          \E t \in server'.made : t.id = e.tr /\ t.state = "closed"
    /\ (server.phase = "serving" /\ server'.phase = "exited") =>
          /\ server'.transports = {}
          /\ \A e \in server.transports :
                \E t \in server'.made : t.id = e.tr /\ t.state = "closed"
C30_SessionTable == [](C30_TableInv) /\ [][C30_Step]_vars
\* One session open and in the table, another closed and out of it.
C30_Witness ==
    /\ \E e \in server.transports : \E t \in server.made : t.id = e.tr /\ t.state = "open"
    /\ \E t \in server.made :
          /\ t.state = "closed"
          /\ \A e \in server.transports : e.tr # t.id

====
